---------------------------- MODULE Spec2Model ----------------------------
(***************************************************************************)
(* Model of core/main/api/v3/retrieval_router.py (R2R retrieval router):   *)
(*   - the search-settings resolution (merge_search_settings and           *)
(*     RetrievalRouter._prepare_search_settings);                          *)
(*   - the streaming response chunker (the stream_generator closures of    *)
(*     rag_app, agent_app and reasoning_agent_app, which are textually     *)
(*     identical).                                                         *)
(* SearchSettings, SearchSettings.get_default and select_search_filters    *)
(* are imported from core.base, which is not part of the source at hand;   *)
(* they are modelled from the specification text.                          *)
(***************************************************************************)
EXTENDS Integers, Sequences, FiniteSets, TLC

(***************************************************************************)
(* Bounds of the model.                                                    *)
(***************************************************************************)
\* result limits the caller may send are 1..MaxLimit
MaxLimit == 2
\* a request body sets at most this many top-level fields of search_settings
MaxSetFields == 2

(***************************************************************************)
(* Python values.                                                          *)
(***************************************************************************)
None == [py |-> "None"]

\* exceptions: a plain Exception and R2RException(message, status_code)
Exception(msg) == [py |-> "Exception", message |-> msg]
R2RException(msg, status) ==
    [py |-> "R2RException", message |-> msg, status_code |-> status]
\* str(e)
str(e) == e.message

Users == {"u1", "u2"}
DocIds == {"abc", "xyz"}

(***************************************************************************)
(* Filter expressions (the JSON filter trees of SearchSettings.filters)    *)
(* and their meaning over documents.                                       *)
(***************************************************************************)
EmptyFilter == [op |-> "empty"]
Eq(f, v) == [op |-> "eq", field |-> f, value |-> v]
And(l, r) == [op |-> "and", args |-> <<l, r>>]
Or(l, r) == [op |-> "or", args |-> <<l, r>>]

Docs == [owner_id : Users, document_id : DocIds]

RECURSIVE Eval(_, _)
Eval(f, d) ==
    CASE f.op = "empty" -> TRUE
      [] f.op = "eq" -> d[f.field] = f.value
      [] f.op = "and" -> \A i \in DOMAIN f.args : Eval(f.args[i], d)
      [] f.op = "or" -> \E i \in DOMAIN f.args : Eval(f.args[i], d)

\* f admits only documents that g admits
Implies(f, g) == \A d \in Docs : Eval(f, d) => Eval(g, d)

\* Scope.scopePredicate(): derived from the caller's identity alone
scopePredicate(auth_user) == Eq("owner_id", auth_user)

(***************************************************************************)
(* SearchSettings and its nested models: pydantic models.  An object is a  *)
(* record of its fields plus fields_set, the names given to the            *)
(* constructor ("explicitly set").                                         *)
(***************************************************************************)
TopFields == {"use_semantic_search", "use_fulltext_search", "filters",
              "limit", "chunk_settings", "graph_settings"}
ChunkFields == {"limit", "index_measure"}
GraphFields == {"enabled", "limit"}

DefaultLimit == 1
Limits == 1..MaxLimit
Measures == {"cosine_distance", "l2_distance"}

Get(d, k, default) == IF k \in DOMAIN d THEN d[k] ELSE default

\* ChunkSearchSettings(**d)
ChunkSearchSettings(d) ==
    [limit |-> Get(d, "limit", DefaultLimit),
     index_measure |-> Get(d, "index_measure", "cosine_distance"),
     fields_set |-> DOMAIN d]

\* GraphSearchSettings(**d)
GraphSearchSettings(d) ==
    [enabled |-> Get(d, "enabled", TRUE),
     limit |-> Get(d, "limit", DefaultLimit),
     fields_set |-> DOMAIN d]

\* SearchSettings(**d): fields absent from d take their type default; nested
\* models are built from their own dicts
SearchSettings(d) ==
    [use_semantic_search |-> Get(d, "use_semantic_search", TRUE),
     use_fulltext_search |-> Get(d, "use_fulltext_search", FALSE),
     filters |-> Get(d, "filters", EmptyFilter),
     limit |-> Get(d, "limit", DefaultLimit),
     chunk_settings |-> ChunkSearchSettings(Get(d, "chunk_settings", <<>>)),
     graph_settings |-> GraphSearchSettings(Get(d, "graph_settings", <<>>)),
     fields_set |-> DOMAIN d]

\* obj.model_dump(exclude_unset=...): a dict of the object's fields, nested
\* models dumped to dicts in turn; exclude_unset keeps only the fields of
\* fields_set, at every level
nested_dump(obj, fields, exclude_unset) ==
    [k \in (IF exclude_unset THEN obj.fields_set ELSE fields) |-> obj[k]]

model_dump(obj, exclude_unset) ==
    [k \in (IF exclude_unset THEN obj.fields_set ELSE TopFields) |->
        CASE k = "chunk_settings" ->
                nested_dump(obj.chunk_settings, ChunkFields, exclude_unset)
          [] k = "graph_settings" ->
                nested_dump(obj.graph_settings, GraphFields, exclude_unset)
          [] OTHER -> obj[k]]

\* obj.<name> = value on a pydantic model: assigns and records the field as set
SetAttr(obj, name, value) ==
    [obj EXCEPT ![name] = value, !.fields_set = @ \cup {name}]


(***************************************************************************)
(* ModeDefaultsRegistry: the preset templates behind                       *)
(* SearchSettings.get_default(mode).  basic is semantic search only,       *)
(* advanced adds full-text search; a template carries no filter.  The      *)
(* other template fields are either left at their type defaults or all set *)
(* to other values (TemplateExtras).                                       *)
(***************************************************************************)
SearchModes == {"basic", "advanced", "custom"}
PresetModes == {"basic", "advanced"}

Restrict(f, S) == [k \in S |-> f[k]]

TemplateExtra ==
    [limit |-> MaxLimit,
     chunk_settings |-> [limit |-> MaxLimit, index_measure |-> "l2_distance"],
     graph_settings |-> [enabled |-> FALSE, limit |-> MaxLimit]]

TemplateExtras == {Restrict(TemplateExtra, {}), TemplateExtra}

TemplateKwargs(mode, extra) ==
    [k \in {"use_semantic_search", "use_fulltext_search"} \cup DOMAIN extra |->
        CASE k = "use_semantic_search" -> TRUE
          [] k = "use_fulltext_search" -> (mode = "advanced")
          [] OTHER -> extra[k]]

Registries ==
    {[mode \in PresetModes |-> SearchSettings(TemplateKwargs(mode, extra))] :
        extra \in TemplateExtras}

(***************************************************************************)
(* Request bodies: the JSON object the caller sends as search_settings.    *)
(* The keys of the object are the fields the caller explicitly sets.       *)
(***************************************************************************)
CallerFilters ==
    {EmptyFilter,
     Eq("document_id", "abc"),
     Or(Eq("document_id", "abc"), Eq("owner_id", "u2"))}

ChunkDicts ==
    {Restrict(full, fs) :
        full \in [limit : Limits, index_measure : Measures],
        fs \in SUBSET ChunkFields}

GraphDicts ==
    {Restrict(full, fs) :
        full \in [enabled : BOOLEAN, limit : Limits],
        fs \in SUBSET GraphFields}

FullBodies ==
    [use_semantic_search : BOOLEAN,
     use_fulltext_search : BOOLEAN,
     filters : CallerFilters,
     limit : Limits,
     chunk_settings : ChunkDicts,
     graph_settings : GraphDicts]

Bodies ==
    {Restrict(full, fs) :
        full \in FullBodies,
        fs \in {s \in SUBSET TopFields : Cardinality(s) <= MaxSetFields}}

VARIABLES
    registry,            \* ModeDefaultsRegistry, built once at start
    auth_user,           \* the authenticated caller (the scope)
    search_mode,         \* SearchMode of the request
    search_settings,     \* the caller's SearchSettings object, or None
    supplied,            \* search_settings as it was when the call was made
    effective_settings,  \* the local effective_settings, None before line 66
    pc                   \* position in _prepare_search_settings

settingsVars == <<registry, auth_user, search_mode, search_settings,
                  supplied, effective_settings, pc>>

\* the streamed response (see the stream chunker below)
VARIABLES
    fragments,    \* the lengths of the fragments upstream will produce
    pulls,        \* __anext__ calls made on the upstream sequence (response)
    up_state,     \* the upstream async generator
    gen_pc,       \* position of stream_generator
    chunk,        \* its local chunk, None before the first fragment
    i,            \* its local i (the range index of line 392)
    frames,       \* the frames yielded to the consumer so far
    gen_error,    \* exception stream_generator ended with, or None
    consumer      \* "open", or "cancelled" once it closed the frame sequence

streamVars == <<fragments, pulls, up_state, gen_pc, chunk, i, frames,
                gen_error, consumer>>

\* one request to a route of the router (see the request handlers below)
VARIABLES
    app,                    \* the route called
    query,                  \* the query of a search or rag request
    rag_generation_config,  \* the caller's GenerationConfig object, or None
    config_supplied,        \* rag_generation_config as the request gave it
    h_pc,                   \* position in the handler
    response,               \* what the backend returned, None before
    backend_calls,          \* the calls made to self.services.retrieval
    outcome                 \* what the handler returned or raised, or None

handlerVars == <<app, query, rag_generation_config, config_supplied, h_pc,
                 response, backend_calls, outcome>>

\* SearchSettings.get_default(mode): a fresh settings object per call
get_default(mode) == registry[mode]

\* select_search_filters(auth_user, settings): scope predicate AND the
\* settings' filter, or the scope predicate alone when there is no filter
select_search_filters(user, settings) ==
    IF settings.filters = EmptyFilter
    THEN scopePredicate(user)
    ELSE And(scopePredicate(user), settings.filters)

\* merge variants that a slip in lines 35-41 would give
\* (overrides dumped with exclude_defaults instead of exclude_unset)
merge_exclude_defaults(base, overrides) ==
    LET base_dict == model_dump(base, FALSE)
        full == model_dump(overrides, FALSE)
        dflt == model_dump(SearchSettings(<<>>), FALSE)
        overrides_dict == Restrict(full, {k \in TopFields : full[k] # dflt[k]})
        merged == [k \in TopFields |->
                      IF k \in DOMAIN overrides_dict
                      THEN overrides_dict[k]
                      ELSE base_dict[k]]
    IN SearchSettings(merged)

\* (overrides dumped without exclude_unset)
merge_dump_all(base, overrides) ==
    SearchSettings(model_dump(overrides, FALSE))

\* (nested settings merged key by key instead of replaced)
merge_deep(base, overrides) ==
    LET base_dict == model_dump(base, FALSE)
        overrides_dict == model_dump(overrides, TRUE)
        deep(k) == [g \in DOMAIN base_dict[k] |->
                       IF g \in DOMAIN overrides_dict[k]
                       THEN overrides_dict[k][g]
                       ELSE base_dict[k][g]]
        merged == [k \in TopFields |->
                      IF k \in DOMAIN overrides_dict
                      THEN IF k \in {"chunk_settings", "graph_settings"}
                           THEN deep(k)
                           ELSE overrides_dict[k]
                      ELSE base_dict[k]]
    IN SearchSettings(merged)

merge_search_settings(base, overrides) ==
    LET base_dict == model_dump(base, FALSE)
        overrides_dict == model_dump(overrides, TRUE)
        merged == [k \in DOMAIN base_dict \cup DOMAIN overrides_dict |->
                      IF k \in DOMAIN overrides_dict
                      THEN overrides_dict[k]
                      ELSE base_dict[k]]
    IN SearchSettings(merged)

\* variants of lines 66-76: the template dropped when no overrides are sent
choose_settings_no_template(mode, settings) ==
    IF settings # None
    THEN IF mode # "custom"
         THEN merge_search_settings(get_default(mode), settings)
         ELSE settings
    ELSE SearchSettings(<<>>)

\* the basic template consulted in custom mode too
choose_settings_always_preset(mode, settings) ==
    LET base == get_default(IF mode = "custom" THEN "basic" ELSE mode)
    IN IF settings # None
       THEN merge_search_settings(base, settings)
       ELSE base

\* lines 66-76: the settings object chosen before the filter is applied
choose_settings(mode, settings) ==
    IF mode # "custom"
    THEN IF settings # None
         THEN merge_search_settings(get_default(mode), settings)
         ELSE get_default(mode)
    ELSE IF settings # None THEN settings ELSE SearchSettings(<<>>)

\* variant of lines 78-82: the caller's filter widens the scope
apply_filters_or(user, settings) ==
    SetAttr(settings, "filters",
            IF settings.filters = EmptyFilter
            THEN scopePredicate(user)
            ELSE Or(scopePredicate(user), settings.filters))

\* variant of lines 78-82: the selected filter computed but not assigned
apply_filters_skipped(user, settings) == settings

\* lines 78-82: effective_settings.filters = select_search_filters(...)
apply_filters(user, settings) ==
    SetAttr(settings, "filters", select_search_filters(user, settings))

\* the caller's object is the one being assigned to (line 76 binds
\* effective_settings to search_settings itself, without copying)
Aliased == search_mode = "custom" /\ search_settings # None

InitSettings ==
    /\ registry \in Registries
    /\ auth_user \in Users
    /\ search_mode \in SearchModes
    /\ \E body \in {None} \cup Bodies :
          search_settings = IF body = None THEN None ELSE SearchSettings(body)
    /\ supplied = search_settings
    /\ effective_settings = None
    /\ pc = "call"

\* lines 66-76
ChooseSettings ==
    /\ pc = "call"
    /\ effective_settings' = choose_settings(search_mode, search_settings)
    /\ pc' = "chosen"
    /\ UNCHANGED <<registry, auth_user, search_mode, search_settings, supplied>>
    /\ UNCHANGED streamVars
    /\ UNCHANGED handlerVars

\* lines 78-82
ApplyFilters ==
    /\ pc = "chosen"
    /\ effective_settings' = apply_filters(auth_user, effective_settings)
    /\ search_settings' =
          IF Aliased THEN effective_settings' ELSE search_settings
    /\ pc' = "returned"
    /\ UNCHANGED <<registry, auth_user, search_mode, supplied>>
    /\ UNCHANGED streamVars
    /\ UNCHANGED handlerVars

(***************************************************************************)
(* The stream chunker: stream_generator (rag_app lines 388-398, agent_app  *)
(* 630-640, reasoning_agent_app 802-812; the three are the same code).     *)
(*                                                                         *)
(* Text is kept by position, not by character: the content of upstream    *)
(* fragment k of length n is the run [frag |-> k, from |-> 0, to |-> n],   *)
(* and a slice of it is a sub-run.                                         *)
(***************************************************************************)
ChunkSize == 1024

\* upstream yields at most this many fragments before it ends
MaxFrags == 2
\* fragment lengths are q * ChunkSize + r with q <= MaxQuot
MaxQuot == 2

Rems == {0, 1, 552, ChunkSize - 1}
FragLens == {q * ChunkSize + r : q \in 0..MaxQuot, r \in Rems}

Min(a, b) == IF a <= b THEN a ELSE b

Fragment(k, n) == [frag |-> k, from |-> 0, to |-> n]

\* len(s)
len(s) == s.to - s.from

\* s[a:b] for 0 <= a <= b: Python clamps both ends to the length
Slice(s, a, b) ==
    [frag |-> s.frag, from |-> s.from + Min(a, len(s)),
     to |-> s.from + Min(b, len(s))]

vars == <<settingsVars, streamVars, handlerVars>>

\* line 391
needs_split(c) == len(c) > ChunkSize

\* variants of line 393: chunk[i : i + 1023], and chunk[i:]
slice_short(c, idx) == Slice(c, idx, idx + ChunkSize - 1)
slice_to_end(c, idx) == Slice(c, idx, len(c))

\* line 393: chunk[i : i + 1024]
slice_at(c, idx) == Slice(c, idx, idx + ChunkSize)

\* variant of line 392: range(0, len(chunk) + 1, 1024)
in_range_inclusive(c, idx) == idx <= len(c)

\* variant of line 392: the loop left after its first slice
in_range_first_only(c, idx) == idx < Min(len(c), ChunkSize)

\* line 392: range(0, len(chunk), 1024) has idx as a member
in_range(c, idx) == idx < len(c)

\* lines 391-395 on receiving chunk c: the first frame and where it is yielded
first_yield(c) ==
    IF needs_split(c)
    THEN [pc |-> "yield_slice", i |-> 0, frame |-> slice_at(c, 0)]
    ELSE [pc |-> "yield_chunk", i |-> 0, frame |-> c]

\* variant of lines 396-398: GeneratorExit swallowed and the loop resumed
on_generator_exit_ignored(p) ==
    [pc |-> "awaiting", pulls |-> p + 1,
     error |-> Exception("async generator ignored GeneratorExit")]

\* variant of lines 396-398: one more fragment requested while cleaning up
on_generator_exit_repull(p) ==
    [pc |-> "closed", pulls |-> p + 1, error |-> None]

\* lines 396-398: GeneratorExit thrown in at a yield is caught and the
\* generator returns; it asks upstream for nothing
on_generator_exit(p) ==
    [pc |-> "closed", pulls |-> p, error |-> None]

IdleStream ==
    /\ fragments = <<>>
    /\ pulls = 0
    /\ up_state = "created"
    /\ gen_pc = "created"
    /\ chunk = None
    /\ i = 0
    /\ frames = <<>>
    /\ gen_error = None
    /\ consumer = "open"

InitStream ==
    /\ fragments \in UNION {[1..n -> FragLens] : n \in 0..MaxFrags}
    /\ pulls = 0
    /\ up_state = "created"
    /\ gen_pc = "created"
    /\ chunk = None
    /\ i = 0
    /\ frames = <<>>
    /\ gen_error = None
    /\ consumer = "open"

\* variant of line 390: the fragment after the next one requested as well
pull_ahead ==
    /\ pulls' = pulls + 2
    /\ up_state' = "running"
    /\ gen_pc' = "awaiting"

\* line 390: the async for asks upstream for its next fragment
Pull ==
    /\ pulls' = pulls + 1
    /\ up_state' = "running"
    /\ gen_pc' = "awaiting"

\* The consumer asks for the next frame (__anext__ on stream_generator):
\* the generator starts, or resumes after the yield it is suspended at.
ConsumerNext ==
    /\ consumer = "open"
    /\ gen_pc \in {"created", "yield_slice", "yield_chunk"}
    /\ IF gen_pc = "yield_slice" /\ in_range(chunk, i + ChunkSize)
       THEN /\ i' = i + ChunkSize
            /\ frames' = Append(frames, slice_at(chunk, i'))
            /\ UNCHANGED <<pulls, up_state, gen_pc>>
       ELSE /\ Pull
            /\ UNCHANGED <<i, frames>>
    /\ UNCHANGED <<fragments, chunk, gen_error, consumer>>
    /\ UNCHANGED settingsVars
    /\ UNCHANGED handlerVars

\* Upstream yields its next fragment; the loop body runs to its first yield.
UpstreamYield ==
    /\ gen_pc = "awaiting"
    /\ pulls <= Len(fragments)
    /\ LET c == Fragment(pulls, fragments[pulls])
           y == first_yield(c)
       IN /\ chunk' = c
          /\ i' = y.i
          /\ frames' = Append(frames, y.frame)
          /\ gen_pc' = y.pc
    /\ up_state' = "suspended"
    /\ UNCHANGED <<fragments, pulls, gen_error, consumer>>
    /\ UNCHANGED settingsVars
    /\ UNCHANGED handlerVars

\* Upstream ends (StopAsyncIteration): the async for ends and the generator
\* returns normally.
UpstreamEnd ==
    /\ gen_pc = "awaiting"
    /\ pulls > Len(fragments)
    /\ up_state' = "exhausted"
    /\ gen_pc' = "done"
    /\ UNCHANGED <<fragments, pulls, chunk, i, frames, gen_error, consumer>>
    /\ UNCHANGED settingsVars
    /\ UNCHANGED handlerVars

\* Upstream raises instead of producing: only GeneratorExit is caught at
\* line 396, so the exception leaves stream_generator.
UpstreamRaise ==
    /\ gen_pc = "awaiting"
    /\ up_state' = "failed"
    /\ gen_pc' = "failed"
    /\ gen_error' = Exception("upstream failed")
    /\ UNCHANGED <<fragments, pulls, chunk, i, frames, consumer>>
    /\ UNCHANGED settingsVars
    /\ UNCHANGED handlerVars

\* The consumer closes the frame sequence (aclose on stream_generator).  A
\* generator suspended at a yield gets GeneratorExit there; one that has not
\* started is closed without running.  response itself is not closed by the
\* generator.
ConsumerClose ==
    /\ consumer = "open"
    /\ gen_pc \in {"created", "yield_slice", "yield_chunk"}
    /\ consumer' = "cancelled"
    /\ IF gen_pc = "created"
       THEN /\ gen_pc' = "closed"
            /\ UNCHANGED <<pulls, gen_error>>
       ELSE LET r == on_generator_exit(pulls)
            IN /\ gen_pc' = r.pc
               /\ pulls' = r.pulls
               /\ gen_error' = r.error
    /\ UNCHANGED <<fragments, up_state, chunk, i, frames>>
    /\ UNCHANGED settingsVars
    /\ UNCHANGED handlerVars

(***************************************************************************)
(* The request handlers: search_app (lines 227-236), rag_app (371-404),    *)
(* agent_app (605-648), reasoning_agent_app (776-820), completion          *)
(* (949-952) and embedding (1019-1021).  A handler runs its steps in       *)
(* order; the settings resolution and the backend are the calls that may   *)
(* raise.                                                                  *)
(***************************************************************************)
Apps == {"search", "rag", "agent", "reasoning_agent", "completion", "embedding"}
\* routes that take search_mode and search_settings
SettingsApps == {"search", "rag", "agent"}
\* routes that take a GenerationConfig
ConfigApps == {"rag", "agent", "reasoning_agent", "completion"}

Queries == {"", "Who is Aristotle?"}

\* self.config.app.quality_llm, and the model values a caller may send
QualityLLM == "quality_llm"
DefaultModel == "default_model"
Models == {DefaultModel, QualityLLM, "gpt-4o-mini"}

\* GenerationConfig(**d)
GenerationConfig(d) ==
    [model |-> Get(d, "model", DefaultModel),
     stream |-> Get(d, "stream", FALSE),
     fields_set |-> DOMAIN d]

ConfigBodies ==
    {Restrict(full, fs) :
        full \in [model : Models, stream : BOOLEAN],
        fs \in SUBSET {"model", "stream"}}

\* the search_settings bodies sent to the handlers: filters and limit
HandlerBodies == {b \in Bodies : DOMAIN b \subseteq {"filters", "limit"}}

\* the steps of each handler, in the order of its code
Steps(a) ==
    CASE a = "search" -> <<"validate", "prepare", "backend", "return">>
      [] a \in {"rag", "agent"} -> <<"inject", "prepare", "backend", "route">>
      [] a = "reasoning_agent" -> <<"prepare", "inject", "backend", "route">>
      [] OTHER -> <<"backend", "return">>

NextStep(a, step) ==
    LET sq == Steps(a)
        idx == CHOOSE j \in DOMAIN sq : sq[j] = step
    IN IF idx = Len(sq) THEN "done" ELSE sq[idx + 1]

\* variant of lines 227-228: only a missing query rejected
validate_query_none_only(q) ==
    IF q = "None" THEN R2RException("Query cannot be empty", 400) ELSE None

\* lines 227-228: the exception raised for the query, or None
validate_query(q) ==
    IF q = "" THEN R2RException("Query cannot be empty", 400) ELSE None

\* variant of lines 371-372: the default injected when model looks unset
inject_model_if_default(config) ==
    IF config.model = DefaultModel
    THEN SetAttr(config, "model", QualityLLM)
    ELSE config

\* lines 371-372 (605-606, 780-781)
inject_model(config) ==
    IF "model" \notin config.fields_set
    THEN SetAttr(config, "model", QualityLLM)
    ELSE config

\* StreamingResponse(stream_generator(), media_type="text/event-stream")
StreamingResponse(resp) ==
    [py |-> "StreamingResponse", body_iterator |-> "stream_generator",
     source |-> resp, media_type |-> "text/event-stream"]

\* variant of lines 386-404: the backend's value returned whatever it is
route_raw(config, resp) == resp

\* lines 386-404 (628-646, 800-818)
route(config, resp) ==
    IF config.stream THEN StreamingResponse(resp) ELSE resp

\* lines 612 and 647-648 (783 and 819-820): the steps inside try
in_try(a, step) ==
    a \in {"agent", "reasoning_agent"} /\ step \in {"backend", "route"}

\* what leaves the handler when step raises e
raised(a, step, e) ==
    IF in_try(a, step) THEN R2RException(str(e), 500) ELSE e

\* the arguments of the call to self.services.retrieval
backend_call(a, q, settings, config) ==
    [service |-> IF a = "reasoning_agent" THEN "agent" ELSE a,
     reasoning_agent |-> (a = "reasoning_agent"),
     query |-> q,
     search_settings |-> IF a \in SettingsApps \cup {"reasoning_agent"}
                         THEN settings ELSE None,
     config |-> IF a \in ConfigApps THEN config ELSE None]

\* the backend returns a fragment sequence when the stream flag is set, a
\* structured response otherwise
backend_response(a, config) ==
    IF a \in ConfigApps /\ config.stream
    THEN [py |-> "FragmentSequence"]
    ELSE [py |-> "Response"]

IdleHandler ==
    /\ app = "none"
    /\ query = "Who is Aristotle?"
    /\ rag_generation_config = None
    /\ config_supplied = None
    /\ h_pc = "idle"
    /\ response = None
    /\ backend_calls = <<>>
    /\ outcome = None

InitHandler ==
    /\ app \in Apps
    /\ query \in (IF app \in {"search", "rag"} THEN Queries ELSE {"Who is Aristotle?"})
    /\ \E body \in (IF app \in ConfigApps THEN ConfigBodies ELSE {None}) :
          rag_generation_config =
             IF body = None THEN None ELSE GenerationConfig(body)
    /\ config_supplied = rag_generation_config
    /\ h_pc = Steps(app)[1]
    /\ response = None
    /\ backend_calls = <<>>
    /\ outcome = None

\* the request's mode and settings; completion and embedding carry none
InitHandlerSettings ==
    /\ registry \in Registries
    /\ auth_user \in Users
    /\ search_mode \in (IF app \in SettingsApps \cup {"reasoning_agent"}
                        THEN SearchModes ELSE {"custom"})
    /\ \E body \in (IF app \in SettingsApps \cup {"reasoning_agent"}
                    THEN {None} \cup HandlerBodies ELSE {None}) :
          search_settings = IF body = None THEN None ELSE SearchSettings(body)
    /\ supplied = search_settings
    /\ effective_settings = None
    /\ pc = "call"

\* lines 227-228
ValidateQuery ==
    /\ h_pc = "validate"
    /\ LET e == validate_query(query)
       IN IF e # None
          THEN /\ outcome' = e
               /\ h_pc' = "raised"
          ELSE /\ h_pc' = NextStep(app, "validate")
               /\ UNCHANGED outcome
    /\ UNCHANGED <<app, query, rag_generation_config, config_supplied,
                   response, backend_calls>>
    /\ UNCHANGED <<settingsVars, streamVars>>

\* lines 371-372 (605-606, 780-781)
InjectModel ==
    /\ h_pc = "inject"
    /\ rag_generation_config' = inject_model(rag_generation_config)
    /\ h_pc' = NextStep(app, "inject")
    /\ UNCHANGED <<app, query, config_supplied, response, backend_calls, outcome>>
    /\ UNCHANGED <<settingsVars, streamVars>>

\* variant of lines 776-778: the reasoning agent resolving the request's own
\* mode and settings, as the other routes do
PrepareSettings_from_request ==
    /\ h_pc = "prepare"
    /\ effective_settings' =
          apply_filters(auth_user, choose_settings(search_mode, search_settings))
    /\ search_settings' =
          IF search_mode = "custom" /\ search_settings # None
          THEN effective_settings'
          ELSE search_settings
    /\ pc' = "returned"
    /\ h_pc' = NextStep(app, "prepare")
    /\ UNCHANGED <<registry, auth_user, search_mode, supplied>>
    /\ UNCHANGED <<app, query, rag_generation_config, config_supplied,
                   response, backend_calls, outcome>>
    /\ UNCHANGED streamVars

\* lines 229-231 (374-376, 608-610): _prepare_search_settings with the
\* request's mode and settings; lines 776-778: with SearchMode.basic and None
PrepareSettings ==
    /\ h_pc = "prepare"
    /\ LET mode == IF app = "reasoning_agent" THEN "basic" ELSE search_mode
           settings == IF app = "reasoning_agent" THEN None ELSE search_settings
       IN /\ effective_settings' =
                apply_filters(auth_user, choose_settings(mode, settings))
          /\ search_settings' =
                IF mode = "custom" /\ settings # None
                THEN effective_settings'
                ELSE search_settings
    /\ pc' = "returned"
    /\ h_pc' = NextStep(app, "prepare")
    /\ UNCHANGED <<registry, auth_user, search_mode, supplied>>
    /\ UNCHANGED <<app, query, rag_generation_config, config_supplied,
                   response, backend_calls, outcome>>
    /\ UNCHANGED streamVars

\* _prepare_search_settings raises
PrepareRaises ==
    /\ h_pc = "prepare"
    /\ outcome' = raised(app, "prepare", Exception("settings resolution failed"))
    /\ h_pc' = "raised"
    /\ UNCHANGED <<app, query, rag_generation_config, config_supplied,
                   response, backend_calls>>
    /\ UNCHANGED <<settingsVars, streamVars>>

\* lines 232-235 (378-384, 613-626, 784-798, 949-952, 1019-1021): the call
\* to the backend returns
CallBackend ==
    /\ h_pc = "backend"
    /\ backend_calls' =
          Append(backend_calls,
                 backend_call(app, query, effective_settings, rag_generation_config))
    /\ response' = backend_response(app, rag_generation_config)
    /\ h_pc' = NextStep(app, "backend")
    /\ UNCHANGED <<app, query, rag_generation_config, config_supplied, outcome>>
    /\ UNCHANGED <<settingsVars, streamVars>>

\* the call to the backend raises
BackendRaises ==
    /\ h_pc = "backend"
    /\ backend_calls' =
          Append(backend_calls,
                 backend_call(app, query, effective_settings, rag_generation_config))
    /\ outcome' = raised(app, "backend", Exception("backend failed"))
    /\ h_pc' = "raised"
    /\ UNCHANGED <<app, query, rag_generation_config, config_supplied, response>>
    /\ UNCHANGED <<settingsVars, streamVars>>

\* lines 386-404 (628-646, 800-818)
Route ==
    /\ h_pc = "route"
    /\ outcome' = route(rag_generation_config, response)
    /\ h_pc' = "done"
    /\ UNCHANGED <<app, query, rag_generation_config, config_supplied,
                   response, backend_calls>>
    /\ UNCHANGED <<settingsVars, streamVars>>

\* line 236 (949, 1019): the backend's value returned as it is
Return ==
    /\ h_pc = "return"
    /\ outcome' = response
    /\ h_pc' = "done"
    /\ UNCHANGED <<app, query, rag_generation_config, config_supplied,
                   response, backend_calls>>
    /\ UNCHANGED <<settingsVars, streamVars>>

(***************************************************************************)
(* Specifications.                                                         *)
(***************************************************************************)
Init == InitSettings /\ IdleStream /\ IdleHandler

Next ==
    \/ ChooseSettings
    \/ ApplyFilters

\* settings resolution: every request (mode, overrides, caller, registry)
Spec == Init /\ [][Next]_vars

IdleSettings ==
    /\ registry = [mode \in PresetModes |-> SearchSettings(TemplateKwargs(mode, <<>>))]
    /\ auth_user = "u1"
    /\ search_mode = "custom"
    /\ search_settings = None
    /\ supplied = None
    /\ effective_settings = None
    /\ pc = "call"

StreamInit == IdleSettings /\ InitStream /\ IdleHandler

StreamNext ==
    \/ ConsumerNext
    \/ UpstreamYield
    \/ UpstreamEnd
    \/ UpstreamRaise
    \/ ConsumerClose

\* one streamed response: every fragment sequence within the bounds
StreamSpec == StreamInit /\ [][StreamNext]_vars

\* A streamed response whose upstream is finite and does not fail and whose
\* consumer keeps pulling: the event loop runs whichever of the two sides
\* is ready, so each enabled step is eventually taken.
StreamLiveNext ==
    \/ ConsumerNext
    \/ UpstreamYield
    \/ UpstreamEnd

StreamLiveSpec ==
    /\ StreamInit
    /\ [][StreamLiveNext]_vars
    /\ WF_vars(ConsumerNext)
    /\ WF_vars(UpstreamYield)
    /\ WF_vars(UpstreamEnd)

HandlerInit == InitHandler /\ InitHandlerSettings /\ IdleStream

HandlerNext ==
    \/ ValidateQuery
    \/ InjectModel
    \/ PrepareSettings
    \/ PrepareRaises
    \/ CallBackend
    \/ BackendRaises
    \/ Route
    \/ Return

\* one request to one of the routes, to its return or its exception
HandlerSpec == HandlerInit /\ [][HandlerNext]_vars

(***************************************************************************)
(* Properties of the settings resolution (checked under Spec).             *)
(***************************************************************************)
Template == registry[search_mode]
TypeDefaults == SearchSettings(<<>>)

\* the value of field F of a settings object (nested models as dicts)
FieldValue(obj, F) == model_dump(obj, FALSE)[F]

Preset == search_mode \in PresetModes
WithOverrides == supplied # None

\* the filter the caller sent, if any
CallerFilter == IF WithOverrides THEN supplied.filters ELSE EmptyFilter

\* C1: whatever the mode, the caller's filter and the caller, the filter of
\* the returned settings admits only documents the scope predicate admits:
\* it is the scope predicate alone, or AND(scope predicate, caller's filter).
C1_ScopeNeverBypassed ==
    pc = "returned" =>
        /\ Implies(effective_settings.filters, scopePredicate(auth_user))
        /\ effective_settings.filters =
              IF CallerFilter = EmptyFilter
              THEN scopePredicate(auth_user)
              ELSE And(scopePredicate(auth_user), CallerFilter)

\* a caller whose filter names another owner under $or, in every mode
C1_Witness ==
    /\ pc = "returned"
    /\ auth_user = "u1"
    /\ search_mode = "advanced"
    /\ WithOverrides
    /\ supplied.filters = Or(Eq("document_id", "abc"), Eq("owner_id", "u2"))
    /\ ~Implies(supplied.filters, scopePredicate(auth_user))

\* C2: in basic and advanced mode every field the caller explicitly set has
\* the caller's value in the merged settings, whatever that value is; after
\* resolution only filters differs (replaced by the selected filter).
C2_SetFieldWins ==
    (Preset /\ WithOverrides) =>
        /\ pc = "chosen" =>
              \A F \in supplied.fields_set :
                 FieldValue(effective_settings, F) = FieldValue(supplied, F)
        /\ pc = "returned" =>
              \A F \in supplied.fields_set \ {"filters"} :
                 FieldValue(effective_settings, F) = FieldValue(supplied, F)

\* the caller sets limit to the type default where the template has another
\* value, and the full-text flag to the advanced template's own value
C2_Witness ==
    /\ pc = "chosen"
    /\ search_mode = "advanced"
    /\ WithOverrides
    /\ supplied.fields_set = {"limit", "use_fulltext_search"}
    /\ supplied.limit = TypeDefaults.limit
    /\ Template.limit # TypeDefaults.limit
    /\ supplied.use_fulltext_search = Template.use_fulltext_search
    /\ effective_settings.limit = supplied.limit

\* C3 as stated: every field the caller did not set, filters included, has
\* the template's value in the resolved settings.
C3_UnsetKeepsTemplate_AsStated ==
    (pc = "returned" /\ Preset /\ WithOverrides) =>
        \A F \in TopFields \ supplied.fields_set :
           FieldValue(effective_settings, F) = FieldValue(Template, F)

\* C3 (amended): in basic and advanced mode every field other than filters
\* that the caller did not set has the template's value in the resolved
\* settings, not the type default; filters, when the caller did not set it,
\* is the scope predicate.
C3_UnsetKeepsTemplate ==
    (pc = "returned" /\ Preset /\ WithOverrides) =>
        /\ \A F \in TopFields \ (supplied.fields_set \cup {"filters"}) :
              FieldValue(effective_settings, F) = FieldValue(Template, F)
        /\ "filters" \notin supplied.fields_set =>
              effective_settings.filters = scopePredicate(auth_user)

\* the overrides hold type defaults that differ from the template
C3_Witness ==
    /\ pc = "returned"
    /\ search_mode = "advanced"
    /\ WithOverrides
    /\ supplied.fields_set = {"limit"}
    /\ supplied.use_fulltext_search # Template.use_fulltext_search
    /\ supplied.chunk_settings.limit # Template.chunk_settings.limit
    /\ effective_settings.use_fulltext_search = Template.use_fulltext_search

\* C4: basic or advanced mode without overrides resolves to the template
\* with filters equal to the scope predicate.
C4_NoOverridesIsTemplate ==
    (pc = "returned" /\ Preset /\ ~WithOverrides) =>
        /\ effective_settings.filters = scopePredicate(auth_user)
        /\ \A F \in TopFields \ {"filters"} :
              FieldValue(effective_settings, F) = FieldValue(Template, F)

C4_Witness ==
    /\ pc = "returned"
    /\ search_mode = "advanced"
    /\ ~WithOverrides
    /\ FieldValue(Template, "chunk_settings")
          # FieldValue(TypeDefaults, "chunk_settings")
    /\ effective_settings.use_fulltext_search

\* C5: custom mode consults no template: with overrides every field but
\* filters is the overrides' field; without, every field but filters is the
\* type default and filters is the scope predicate.
C5_CustomIsVerbatim ==
    (pc = "returned" /\ search_mode = "custom") =>
        IF WithOverrides
        THEN \A F \in TopFields \ {"filters"} :
                FieldValue(effective_settings, F) = FieldValue(supplied, F)
        ELSE /\ \A F \in TopFields \ {"filters"} :
                   FieldValue(effective_settings, F) = FieldValue(TypeDefaults, F)
             /\ effective_settings.filters = scopePredicate(auth_user)

\* custom mode, a registry whose templates differ from the type defaults
C5_Witness ==
    /\ pc = "returned"
    /\ search_mode = "custom"
    /\ WithOverrides
    /\ supplied.fields_set = {"use_semantic_search"}
    /\ registry["basic"].limit # TypeDefaults.limit
    /\ effective_settings.limit = TypeDefaults.limit

NestedFields(N) == IF N = "chunk_settings" THEN ChunkFields ELSE GraphFields

\* C6: the merge is shallow: a nested settings object the caller set comes
\* whole from the overrides, so its sub-fields the caller did not set are at
\* their type default, not at the template's nested value.
C6_ShallowMerge ==
    (pc \in {"chosen", "returned"} /\ Preset /\ WithOverrides) =>
        \A N \in {"chunk_settings", "graph_settings"} \cap supplied.fields_set :
           \A g \in NestedFields(N) :
              effective_settings[N][g] =
                 IF g \in supplied[N].fields_set
                 THEN supplied[N][g]
                 ELSE TypeDefaults[N][g]

\* chunk_settings sent with index_measure only, template chunk limit not the
\* type default: the result's chunk limit is the type default
C6_Witness ==
    /\ pc = "returned"
    /\ Preset
    /\ WithOverrides
    /\ "chunk_settings" \in supplied.fields_set
    /\ supplied.chunk_settings.fields_set = {"index_measure"}
    /\ Template.chunk_settings.limit # TypeDefaults.chunk_settings.limit
    /\ effective_settings.chunk_settings.limit = TypeDefaults.chunk_settings.limit

(***************************************************************************)
(* Properties of the stream chunker (checked under StreamSpec).            *)
(***************************************************************************)
\* the fragments upstream produces, in order
Input == [k \in 1..Len(fragments) |-> Fragment(k, fragments[k])]

\* concatenation of text kept by position: empty pieces vanish and a piece
\* that continues the one before it is joined to it
AppendRun(acc, r) ==
    IF len(r) = 0 THEN acc
    ELSE IF acc # <<>> /\ acc[Len(acc)].frag = r.frag /\ acc[Len(acc)].to = r.from
         THEN [acc EXCEPT ![Len(acc)].to = r.to]
         ELSE Append(acc, r)

RECURSIVE Concat(_)
Concat(seq) ==
    IF seq = <<>> THEN <<>>
    ELSE AppendRun(Concat(SubSeq(seq, 1, Len(seq) - 1)), seq[Len(seq)])

\* C7: when a finite fragment sequence has been consumed to its end, the
\* concatenation of the emitted frames is the concatenation of the input
\* fragments.
C7_ConcatenationPreserved ==
    gen_pc = "done" => Concat(frames) = Concat(Input)

C7_Witness ==
    /\ gen_pc = "done"
    /\ fragments = <<2600, 1>>
    /\ Len(frames) = 4

\* C8: every frame emitted, at every point of every run, has size at most
\* 1024.
C8_FrameSizeBounded ==
    \A j \in DOMAIN frames : len(frames[j]) <= ChunkSize

C8_Witness ==
    /\ \E k \in DOMAIN fragments : fragments[k] > 2 * ChunkSize
    /\ \E j \in DOMAIN frames : len(frames[j]) = ChunkSize
    /\ gen_pc = "done"

\* ceil(n / 1024) frames for a fragment longer than 1024, else one
NumFrames(n) ==
    IF n <= ChunkSize THEN 1 ELSE (n + ChunkSize - 1) \div ChunkSize

Expected(k) ==
    [j \in 1..NumFrames(fragments[k]) |->
        [frag |-> k, from |-> (j - 1) * ChunkSize,
         to |-> Min(j * ChunkSize, fragments[k])]]

FramesOf(k) ==
    LET OfK(f) == f.frag = k IN SelectSeq(frames, OfK)

IsPrefix(a, b) == Len(a) <= Len(b) /\ a = SubSeq(b, 1, Len(a))

\* C9: each fragment is segmented on its own: a fragment of length N <= 1024
\* is one frame, unchanged; a longer one is ceil(N / 1024) consecutive slices
\* of it, in order, all of size 1024 but possibly the last; frames follow the
\* order of the fragments.
C9_PerFragmentSegmentation ==
    /\ \A a, b \in DOMAIN frames : a < b => frames[a].frag <= frames[b].frag
    /\ \A k \in DOMAIN fragments :
          /\ IsPrefix(FramesOf(k), Expected(k))
          /\ (gen_pc = "done" \/ k < pulls) => FramesOf(k) = Expected(k)
          /\ (gen_pc = "done" /\ fragments[k] <= ChunkSize) =>
                FramesOf(k) = <<Fragment(k, fragments[k])>>

\* 2600 yields 1024, 1024, 552; the empty fragment and the fragment of
\* exactly 1024 yield one frame each
C9_Witness ==
    /\ gen_pc = "done"
    /\ fragments = <<2600, 0>>
    /\ [j \in DOMAIN frames |-> len(frames[j])] = <<1024, 1024, 552, 0>>

\* C10: once the consumer has closed the frame sequence, the chunker asks
\* upstream for nothing more and has ended without an error: the close
\* itself makes no pull, and no step after it does.
C10_NoPullAfterCancel ==
    [][consumer' = "cancelled" =>
          (pulls' = pulls /\ gen_pc' = "closed" /\ gen_error' = None)]_vars

\* closed after a frame was received, with fragments still to come
C10_Witness ==
    /\ consumer = "cancelled"
    /\ gen_pc = "closed"
    /\ Len(frames) >= 1
    /\ pulls < Len(fragments)

\* C11 as stated: when the consumer has cancelled a stream that had started,
\* the chunker has closed the upstream sequence by the time it has ended.
C11_CancelClosesUpstream ==
    (consumer = "cancelled" /\ gen_pc = "closed" /\ up_state # "created") =>
        up_state = "closed"

\* C12: with a finite upstream that does not fail and a consumer that keeps
\* pulling, the frame sequence eventually ends normally, and when it has
\* ended every frame of every fragment, the last included, has been emitted
\* and no error was raised.
C12_EndsNormally ==
    /\ <>(gen_pc = "done")
    /\ [](gen_pc = "done" =>
            /\ gen_error = None
            /\ pulls = Len(fragments) + 1
            /\ \A k \in DOMAIN fragments : FramesOf(k) = Expected(k))

\* ended after a last fragment that needed three frames
C12_Witness ==
    /\ gen_pc = "done"
    /\ fragments = <<1, 2600>>
    /\ Len(frames) = 4
    /\ frames[4] = [frag |-> 2, from |-> 2048, to |-> 2600]

\* C19 as stated: an upstream failure after at least one frame ends the
\* frame sequence with an InternalError (R2RException, status 500), and the
\* three end states are told apart.
C19_MidStreamFailureIsInternalError ==
    /\ (gen_pc = "failed" /\ Len(frames) >= 1) =>
          (gen_error.py = "R2RException" /\ gen_error.status_code = 500)
    /\ gen_pc = "done" => (gen_error = None /\ consumer = "open")
    /\ gen_pc = "closed" => (gen_error = None /\ consumer = "cancelled")

\* C21: the chunker is driven by demand and keeps one fragment at most.
\* Before the consumer's first request nothing has been pulled; every pull
\* is made on a request of the consumer, is for the next fragment only, and
\* is made when every frame of the fragment before it has been handed over;
\* the only fragment the chunker keeps is the last one it received, and
\* every frame handed over so far is a slice of that fragment or of an
\* earlier, completed one.
C21_DemandDriven ==
    /\ [](/\ gen_pc = "created" =>
                (pulls = 0 /\ up_state = "created" /\ chunk = None /\ frames = <<>>)
          /\ \A k \in DOMAIN fragments :
                k < pulls => FramesOf(k) = Expected(k)
          /\ chunk # None =>
                /\ chunk.frag \in {pulls - 1, pulls}
                /\ chunk = Input[chunk.frag]
                /\ \A j \in DOMAIN frames : frames[j].frag <= chunk.frag
          /\ chunk = None => frames = <<>>)
    /\ [][pulls' # pulls =>
            /\ pulls' = pulls + 1
            /\ consumer = "open"
            /\ gen_pc \in {"created", "yield_slice", "yield_chunk"}
            /\ frames' = frames
            /\ pulls >= 1 => FramesOf(pulls) = Expected(pulls)]_vars

\* the second fragment requested once the three frames of the first, of
\* length 2600, were handed over
C21_Witness ==
    /\ gen_pc = "awaiting"
    /\ pulls = 2
    /\ fragments[1] = 2600
    /\ Len(frames) = 3
    /\ chunk = Fragment(1, 2600)

\* a is the text b cut at some position
IsTextPrefix(a, b) ==
    \/ a = <<>>
    \/ /\ Len(a) <= Len(b)
       /\ SubSeq(a, 1, Len(a) - 1) = SubSeq(b, 1, Len(a) - 1)
       /\ a[Len(a)].frag = b[Len(a)].frag
       /\ a[Len(a)].from = b[Len(a)].from
       /\ a[Len(a)].to <= b[Len(a)].to

\* C24: when the consumer cancels, also while a fragment longer than 1024
\* is partly emitted, the chunker has ended, and from the cancellation on no
\* frame is emitted and no fragment is pulled; the frames delivered,
\* concatenated, are a prefix of the concatenation of the input fragments.
C24_CancelMidFragment ==
    /\ [](consumer = "cancelled" =>
             /\ gen_pc = "closed"
             /\ IsTextPrefix(Concat(frames), Concat(Input)))
    /\ [][(consumer = "cancelled" \/ consumer' = "cancelled") =>
             (frames' = frames /\ pulls' = pulls)]_vars

\* cancelled after the second of the three frames of a fragment of 2600
C24_Witness ==
    /\ consumer = "cancelled"
    /\ gen_pc = "closed"
    /\ chunk = Fragment(2, 2600)
    /\ i = ChunkSize
    /\ FramesOf(2) = SubSeq(Expected(2), 1, 2)
    /\ pulls = 2

\* C20 as stated: after _prepare_search_settings has returned, the caller's
\* overrides object (its fields and its set markers) is as it was supplied.
C20_InputsUnchanged ==
    pc = "returned" => search_settings = supplied

(***************************************************************************)
(* Properties of the request handlers (checked under HandlerSpec).         *)
(***************************************************************************)
EmptyQueryError == R2RException("Query cannot be empty", 400)

\* C13: a search call with query "" raises R2RException(400) before the
\* settings are resolved and before any backend call: the backend is never
\* called for that request.
C13_EmptySearchQueryRejected ==
    (app = "search" /\ query = "") =>
        /\ backend_calls = <<>>
        /\ effective_settings = None
        /\ pc = "call"
        /\ h_pc \in {"validate", "raised"}
        /\ h_pc = "raised" => outcome = EmptyQueryError

C13_Witness ==
    /\ app = "search"
    /\ query = ""
    /\ h_pc = "raised"
    /\ outcome = EmptyQueryError

\* C14 as stated: a rag call with query "" raises R2RException(400) before
\* the default model is injected, the settings are resolved or the backend
\* is called.
C14_EmptyRagQueryRejected ==
    (app = "rag" /\ query = "") =>
        /\ backend_calls = <<>>
        /\ effective_settings = None
        /\ rag_generation_config = config_supplied
        /\ h_pc \in {"inject", "raised"}
        /\ h_pc = "raised" => outcome = EmptyQueryError

C16_CompletionDefaultModel ==
    (app = "completion" /\ "model" \notin config_supplied.fields_set) =>
        \A j \in DOMAIN backend_calls :
           backend_calls[j].config.model = QualityLLM

\* C17: rag, agent and reasoning-agent calls return by the stream flag
\* alone: with the flag set, a StreamingResponse over stream_generator on the
\* backend's fragment sequence, never the sequence itself; without it, the
\* backend's response itself, and no StreamingResponse.
C17_RoutedByStreamFlag ==
    (app \in {"rag", "agent", "reasoning_agent"} /\ h_pc = "done") =>
        IF config_supplied.stream
        THEN /\ outcome = StreamingResponse(response)
             /\ outcome.body_iterator = "stream_generator"
             /\ response.py = "FragmentSequence"
        ELSE /\ outcome = response
             /\ outcome.py = "Response"

C17_Witness ==
    /\ app = "agent"
    /\ h_pc = "done"
    /\ config_supplied.stream
    /\ outcome.py = "StreamingResponse"
    /\ outcome.source = [py |-> "FragmentSequence"]

\* C18 as stated: an agent or reasoning-agent call that ends in a failure,
\* at whatever step, ends in R2RException with status 500 and the message of
\* the original failure.
C18_AgentFailureIsInternalError ==
    (app \in {"agent", "reasoning_agent"} /\ h_pc = "raised") =>
        /\ outcome.py = "R2RException"
        /\ outcome.status_code = 500
        /\ outcome.message \in {"settings resolution failed", "backend failed"}

\* the filter of the settings chosen before the selector runs: the caller's
\* when the caller set one, the template's in a preset mode, else the empty one
RawFilter(mode, over) ==
    IF over # None /\ "filters" \in over.fields_set THEN over.filters
    ELSE IF mode \in PresetModes THEN registry[mode].filters
    ELSE EmptyFilter

\* C22: in search, rag, agent and reasoning-agent calls the settings the
\* backend receives carry the selector's output in filters: the scope
\* predicate, alone or ANDed with the filter chosen before it; it implies
\* the scope predicate and is neither the caller's filter as sent nor the
\* template's filter.
C22_BackendGetsScopedFilter ==
    app \in SettingsApps \cup {"reasoning_agent"} =>
        \A j \in DOMAIN backend_calls :
           LET s == backend_calls[j].search_settings
               mode == IF app = "reasoning_agent" THEN "basic" ELSE search_mode
               over == IF app = "reasoning_agent" THEN None ELSE supplied
               raw == RawFilter(mode, over)
           IN /\ s # None
              /\ "filters" \in s.fields_set
              /\ s.filters = IF raw = EmptyFilter
                             THEN scopePredicate(auth_user)
                             ELSE And(scopePredicate(auth_user), raw)
              /\ Implies(s.filters, scopePredicate(auth_user))
              /\ s.filters # raw
              /\ over # None => s.filters # over.filters
              /\ mode \in PresetModes => s.filters # registry[mode].filters

\* an agent call in advanced mode whose caller sent a filter
C22_Witness ==
    /\ app = "agent"
    /\ search_mode = "advanced"
    /\ supplied # None
    /\ supplied.filters = Eq("document_id", "abc")
    /\ Len(backend_calls) = 1
    /\ backend_calls[1].search_settings.filters =
          And(scopePredicate(auth_user), Eq("document_id", "abc"))

\* C23: whatever mode and settings the request carries, the settings a
\* reasoning-agent call passes to the backend are the basic template with
\* filters set to the scope predicate.
C23_ReasoningAgentBasicOnly ==
    app = "reasoning_agent" =>
        \A j \in DOMAIN backend_calls :
           /\ backend_calls[j].search_settings =
                 SetAttr(registry["basic"], "filters", scopePredicate(auth_user))
           /\ search_settings = supplied

\* a request that declares custom mode and sends a limit and a filter
C23_Witness ==
    /\ app = "reasoning_agent"
    /\ search_mode = "custom"
    /\ supplied # None
    /\ supplied.fields_set = {"filters", "limit"}
    /\ supplied.filters # EmptyFilter
    /\ supplied.limit # registry["basic"].limit
    /\ Len(backend_calls) = 1
    /\ backend_calls[1].search_settings.filters = scopePredicate(auth_user)
    /\ backend_calls[1].search_settings.limit = registry["basic"].limit

=============================================================================
